---- MODULE Spec2Model ----
(***************************************************************************)
(* Paste service (src/src/service.rs): a registry of users guarded by one  *)
(* mutex, a directory of blob files, and the operations create, read,      *)
(* replace, delete, register_user, list and cleanup_dangling_files run by  *)
(* concurrent callers.  Registry accesses happen under the mutex; file     *)
(* system calls of create, read and replace happen outside it, so they     *)
(* interleave with the critical sections of other callers.                 *)
(*                                                                         *)
(* The registry type State (crate::state) is not part of the sources at    *)
(* hand; auth, auth_mut, create and users_mut are modelled from the design *)
(* document, section 4.1.                                                  *)
(***************************************************************************)
EXTENDS Integers, Sequences, FiniteSets, TLC

\* ------------------------------------------------------------------ bounds
\* number of identifiers Uuid::new_v4 hands out in one behaviour
MaxCreates == 1
\* number of operations invoked on the service in one behaviour
MaxCalls == 3

\* ------------------------------------------------------------- input sets
Procs == {"c1", "c2"}
UserNames == {"alice", "bob"}
Passwords == {"pw1", "pw2"}
\* bodies uploaded to replace
Bodies == {"hello", "x"}
\* bodies uploaded to create
CreateBodies == {"x"}
\* names of files found in data_dir / identifiers found in the loaded State
InitIds == {101}
\* owned-identifier lists a loaded State may hold for one user
InitPasteLists == {<< >>, <<101>>}
\* passwords a loaded State may hold
InitPasswords == {"pw1"}
\* contents of the files found in data_dir
InitBodies == {"hello"}

NoProc == "none"
NoId == 0

Range(s) == {s[i] : i \in 1..Len(s)}

VARIABLES
    users,          \* State behind the mutex: username -> [password, paste_ids]
    files,          \* data_dir: file name -> content
    lock,           \* holder of Service.state's mutex, or NoProc
    nextId,         \* next identifier Uuid::new_v4 returns
    started,        \* Service::new has returned
    calls,          \* number of operations invoked so far
    pc,             \* position of each caller inside its operation
    arg,            \* arguments (and locals) of each caller's operation
    ret,            \* result of each caller's last finished operation
    all_paste_ids,  \* local HashSet of cleanup_dangling_files, per caller
    made,           \* history: <<id, body>> of returned creates, until a replace or delete of id acts on the blob
    deleted,        \* history: ids whose delete returned Ok
    anon,           \* history: ids returned by anonymous creates
    passAnon,       \* history: per caller, anon at the start of its running cleanup pass
    purged          \* history: anonymous ids with a whole cleanup pass after their create returned

vars == << users, files, lock, nextId, started, calls, pc, arg, ret,
           all_paste_ids, made, deleted, anon, passAnon, purged >>

\* ----------------------------------------------------- calls and results
NoArg == [op |-> "none", id |-> NoId, user |-> "", pw |-> "", body |-> "",
          authed |-> FALSE]
NoRet == [kind |-> "none", id |-> NoId, ids |-> << >>, body |-> ""]
Ret(kind) == [NoRet EXCEPT !.kind = kind]

\* --------------------------------------------------------- registry (State)
\* State::auth / State::auth_mut: the user, only if the stored password matches
auth(us, username, password) ==
    username \in DOMAIN us /\ us[username].password = password

\* State::create: a new user with no pastes; an existing user is either
\* overwritten or kept (the policy is left open), chosen by `overwrite`
create_user(us, username, password, overwrite) ==
    IF username \in DOMAIN us /\ ~overwrite
    THEN us
    ELSE [u \in DOMAIN us \cup {username} |->
            IF u = username THEN [password |-> password, paste_ids |-> << >>]
            ELSE us[u]]

\* ------------------------------------------------------ the mutex (state)
\* a lock() that does not wait for the guard of another caller
can_lock_always(holder) == TRUE

\* Mutex::lock returns only while no guard is alive
can_lock(holder) == holder = NoProc

\* a guard that is never dropped
guard_kept(p) == p

\* the MutexGuard of p dropped (end of statement, end of block, drop, return)
guard_dropped(p) == NoProc

\* ------------------------------------------------------------- blob files
exists(fs, id) == id \in DOMAIN fs

\* a write that opens with create_new: an existing file keeps its content
write_file_exclusive(fs, id, body) ==
    [i \in DOMAIN fs \cup {id} |-> IF i \in DOMAIN fs THEN fs[i] ELSE body]

\* File::create_new / File::create followed by io::copy of the body
write_file(fs, id, body) ==
    [i \in DOMAIN fs \cup {id} |-> IF i = id THEN body ELSE fs[i]]

\* fs::remove_file
remove_file(fs, id) == [i \in DOMAIN fs \ {id} |-> fs[i]]

\* ------------------------------------------------- fragments of operations
\* create without the push
push_dropped(paste_ids, id) == paste_ids

\* create pushing the identifier twice
push_twice(paste_ids, id) == Append(Append(paste_ids, id), id)

\* create: paste_ids.push(id)
push(paste_ids, id) == Append(paste_ids, id)

\* replace without the ownership check
owns_anything(paste_ids, id) == TRUE

\* replace: user.paste_ids.iter().any(|p| p == id)
owns(paste_ids, id) == \E i \in 1..Len(paste_ids) : paste_ids[i] = id

\* delete taking the first entry whatever its identifier
find_index_any(paste_ids, id) == IF Len(paste_ids) > 0 THEN 1 ELSE 0

\* delete: position of the first entry equal to id (1-based), 0 for None
find_index(paste_ids, id) ==
    IF \E i \in 1..Len(paste_ids) : paste_ids[i] = id
    THEN CHOOSE i \in 1..Len(paste_ids) :
            /\ paste_ids[i] = id
            /\ \A j \in 1..(i - 1) : paste_ids[j] # id
    ELSE 0

\* delete truncating the list at index instead of removing one entry
remove_at_truncating(paste_ids, index) == SubSeq(paste_ids, 1, index - 1)

\* delete: paste_ids.remove(index)
remove_at(paste_ids, index) ==
    SubSeq(paste_ids, 1, index - 1) \o SubSeq(paste_ids, index + 1, Len(paste_ids))

\* cleanup_dangling_files with the retain closure returning false
retain_none(paste_ids, fs) == << >>

\* cleanup_dangling_files: paste_ids.retain(|id| exists)
retain_existing(paste_ids, fs) ==
    SelectSeq(paste_ids, LAMBDA id : exists(fs, id))

\* cleanup_dangling_files: the users loop, on the whole registry
retain_users(us, fs) ==
    [u \in DOMAIN us |->
        [us[u] EXCEPT !.paste_ids = retain_existing(us[u].paste_ids, fs)]]

\* cleanup_dangling_files with the HashSet declared inside the users loop:
\* only the ids of the user traversed last are left in it
surviving_ids_last_user(us, fs) ==
    IF DOMAIN us = {} THEN {}
    ELSE LET last == CHOOSE u \in DOMAIN us : TRUE
         IN  Range(retain_existing(us[last].paste_ids, fs))

\* cleanup_dangling_files: all_paste_ids once the users loop is over
surviving_ids(us, fs) ==
    UNION {Range(retain_existing(us[u].paste_ids, fs)) : u \in DOMAIN us}

\* cleanup_dangling_files without the read_dir loop
remove_nothing(fs, referenced) == fs

\* cleanup_dangling_files: the read_dir loop
remove_unreferenced(fs, referenced) ==
    [i \in DOMAIN fs \cap referenced |-> fs[i]]


\* ------------------------------------------------------------ bookkeeping
\* list, lines 153-159: the caller's paste_ids cloned, or "Not authorized"
list(us, username, password) ==
    IF auth(us, username, password)
    THEN [Ret("Ok") EXCEPT !.ids = us[username].paste_ids]
    ELSE Ret("Unauthorized")

\* cleanup_dangling_files, lines 93-118, run with nothing interleaved
Reconcile(us, fs) ==
    [users |-> retain_users(us, fs),
     files |-> remove_unreferenced(fs, surviving_ids(us, fs))]

AuthOptions ==
    {[authed |-> FALSE, user |-> "", pw |-> ""]}
        \cup [authed : {TRUE}, user : UserNames, pw : Passwords]

KnownIds == InitIds \cup (1..(nextId - 1))

\* Return touches nothing but the caller's own locals, so it commutes with
\* every step of the other callers: it is taken before any other step, which
\* leaves the reachable values of users, files and lock unchanged
Returning == \E p \in Procs : pc[p] = "done"

\* p is at position `at` of its operation and may take its next step
At(p, at) == ~Returning /\ pc[p] = at

CanCall(p) == started /\ At(p, "idle") /\ calls < MaxCalls

Ghosts == << made, deleted, anon, passAnon, purged >>

\* ------------------------------------------------------------------- Init
Init ==
    /\ \E reg \in SUBSET UserNames :
         users \in [reg -> [password : InitPasswords, paste_ids : InitPasteLists]]
    /\ \E present \in SUBSET InitIds : files \in [present -> InitBodies]
    /\ lock = NoProc
    /\ nextId = 1
    /\ started = FALSE
    /\ calls = 0
    /\ pc = [p \in Procs |-> IF p = "c1" THEN "cleanup_retain" ELSE "idle"]
    /\ arg = [p \in Procs |-> IF p = "c1" THEN [NoArg EXCEPT !.op = "new"] ELSE NoArg]
    /\ ret = [p \in Procs |-> NoRet]
    /\ all_paste_ids = [p \in Procs |-> {}]
    /\ made = {}
    /\ deleted = {}
    /\ anon = {}
    /\ passAnon = [p \in Procs |-> {}]
    /\ purged = {}

\* ------------------------------------------------------------------ create
\* create, lines 28-38: the call and the first authentication
Create(p) ==
    /\ CanCall(p)
    /\ nextId + Cardinality({q \in Procs : pc[q] = "create_write"}) <= MaxCreates
    /\ \E body \in CreateBodies, a \in AuthOptions :
        /\ a.authed => can_lock(lock)
        /\ lock' = IF a.authed THEN guard_dropped(p) ELSE lock
        /\ arg' = [arg EXCEPT ![p] = [op |-> "create", id |-> NoId, user |-> a.user,
                                      pw |-> a.pw, body |-> body, authed |-> a.authed]]
        /\ IF a.authed /\ ~auth(users, a.user, a.pw)
           THEN /\ pc' = [pc EXCEPT ![p] = "done"]
                /\ ret' = [ret EXCEPT ![p] = Ret("Unauthorized")]
           ELSE /\ pc' = [pc EXCEPT ![p] = "create_write"]
                /\ ret' = [ret EXCEPT ![p] = NoRet]
    /\ calls' = calls + 1
    /\ UNCHANGED << users, files, nextId, started, all_paste_ids, Ghosts >>

\* create, lines 39-42: a fresh identifier, the file created and the body copied
CreateWrite(p) ==
    /\ At(p, "create_write")
    /\ arg' = [arg EXCEPT ![p].id = nextId]
    /\ nextId' = nextId + 1
    /\ files' = write_file(files, nextId, arg[p].body)
    /\ pc' = [pc EXCEPT ![p] = "create_push"]
    /\ UNCHANGED << users, lock, started, calls, ret, all_paste_ids, Ghosts >>

\* create, lines 44-56: the second authentication, the push and the return
CreatePush(p) ==
    /\ At(p, "create_push")
    /\ pc' = [pc EXCEPT ![p] = "done"]
    /\ IF ~arg[p].authed
       THEN /\ ret' = [ret EXCEPT ![p] = [Ret("Ok") EXCEPT !.id = arg[p].id]]
            /\ made' = made \cup {<< arg[p].id, arg[p].body >>}
            /\ anon' = anon \cup {arg[p].id}
            /\ UNCHANGED << users, lock >>
       ELSE /\ can_lock(lock)
            /\ lock' = guard_dropped(p)
            /\ IF auth(users, arg[p].user, arg[p].pw)
               THEN /\ users' = [users EXCEPT ![arg[p].user].paste_ids =
                                    push(users[arg[p].user].paste_ids, arg[p].id)]
                    /\ ret' = [ret EXCEPT ![p] = [Ret("Ok") EXCEPT !.id = arg[p].id]]
                    /\ made' = made \cup {<< arg[p].id, arg[p].body >>}
               ELSE /\ ret' = [ret EXCEPT ![p] = Ret("Unauthorized")]
                    /\ UNCHANGED << users, made >>
            /\ UNCHANGED anon
    /\ UNCHANGED << files, nextId, started, calls, arg, all_paste_ids,
                    deleted, passAnon, purged >>

\* -------------------------------------------------------------------- read
\* read, lines 59-63: File::open
Read(p) ==
    /\ CanCall(p)
    /\ \E id \in KnownIds :
        /\ arg' = [arg EXCEPT ![p] = [NoArg EXCEPT !.op = "read", !.id = id]]
        /\ ret' = [ret EXCEPT ![p] =
                     IF exists(files, id)
                     THEN [Ret("Ok") EXCEPT !.body = files[id]]
                     ELSE Ret("IoNotFound")]
    /\ pc' = [pc EXCEPT ![p] = "done"]
    /\ calls' = calls + 1
    /\ UNCHANGED << users, files, lock, nextId, started, all_paste_ids, Ghosts >>

\* ----------------------------------------------------------------- replace
\* replace, lines 65-80: the call, authentication and the ownership check
Replace(p) ==
    /\ CanCall(p)
    /\ \E id \in KnownIds, body \in Bodies, a \in AuthOptions :
        /\ a.authed => can_lock(lock)
        /\ lock' = IF a.authed THEN guard_dropped(p) ELSE lock
        /\ arg' = [arg EXCEPT ![p] = [op |-> "replace", id |-> id, user |-> a.user,
                                      pw |-> a.pw, body |-> body, authed |-> a.authed]]
        /\ IF a.authed /\ ~auth(users, a.user, a.pw)
           THEN /\ pc' = [pc EXCEPT ![p] = "done"]
                /\ ret' = [ret EXCEPT ![p] = Ret("Unauthorized")]
           ELSE IF a.authed /\ ~owns(users[a.user].paste_ids, id)
           THEN /\ pc' = [pc EXCEPT ![p] = "done"]
                /\ ret' = [ret EXCEPT ![p] = Ret("NotFound")]
           ELSE /\ pc' = [pc EXCEPT ![p] = "replace_exists"]
                /\ ret' = [ret EXCEPT ![p] = NoRet]
    /\ calls' = calls + 1
    /\ UNCHANGED << users, files, nextId, started, all_paste_ids, Ghosts >>

\* replace, lines 82-85: path.exists()
ReplaceExists(p) ==
    /\ At(p, "replace_exists")
    /\ IF exists(files, arg[p].id)
       THEN /\ pc' = [pc EXCEPT ![p] = "replace_write"]
            /\ UNCHANGED ret
       ELSE /\ pc' = [pc EXCEPT ![p] = "done"]
            /\ ret' = [ret EXCEPT ![p] = Ret("NotFound")]
    /\ UNCHANGED << users, files, lock, nextId, started, calls, arg,
                    all_paste_ids, Ghosts >>

\* replace, lines 86-89: File::create (creates or truncates) and the copy
ReplaceWrite(p) ==
    /\ At(p, "replace_write")
    /\ files' = write_file(files, arg[p].id, arg[p].body)
    /\ pc' = [pc EXCEPT ![p] = "done"]
    /\ ret' = [ret EXCEPT ![p] = Ret("Ok")]
    /\ made' = {m \in made : m[1] # arg[p].id}
    /\ UNCHANGED << users, lock, nextId, started, calls, arg, all_paste_ids,
                    deleted, anon, passAnon, purged >>

\* ------------------------------------------------------------------ delete
\* delete, lines 120-139: the call, the lock, authentication and the search
Delete(p) ==
    /\ CanCall(p)
    /\ can_lock(lock)
    /\ \E id \in KnownIds, u \in UserNames, pw \in Passwords :
        /\ arg' = [arg EXCEPT ![p] = [op |-> "delete", id |-> id, user |-> u,
                                      pw |-> pw, body |-> "", authed |-> TRUE]]
        /\ IF ~auth(users, u, pw)
           THEN /\ pc' = [pc EXCEPT ![p] = "done"]
                /\ ret' = [ret EXCEPT ![p] = Ret("Unauthorized")]
                /\ lock' = guard_dropped(p)
           ELSE IF find_index(users[u].paste_ids, id) = 0
           THEN /\ pc' = [pc EXCEPT ![p] = "done"]
                /\ ret' = [ret EXCEPT ![p] = Ret("NotFound")]
                /\ lock' = guard_dropped(p)
           ELSE /\ pc' = [pc EXCEPT ![p] = "delete_remove_file"]
                /\ ret' = [ret EXCEPT ![p] = NoRet]
                /\ lock' = p
    /\ calls' = calls + 1
    /\ UNCHANGED << users, files, nextId, started, all_paste_ids, Ghosts >>

\* delete, line 140: remove_file, whose error returns and drops the guard
DeleteRemoveFile(p) ==
    /\ At(p, "delete_remove_file")
    /\ IF exists(files, arg[p].id)
       THEN /\ files' = remove_file(files, arg[p].id)
            /\ made' = {m \in made : m[1] # arg[p].id}
            /\ pc' = [pc EXCEPT ![p] = "delete_remove_entry"]
            /\ UNCHANGED << lock, ret >>
       ELSE /\ pc' = [pc EXCEPT ![p] = "done"]
            /\ ret' = [ret EXCEPT ![p] = Ret("IoNotFound")]
            /\ lock' = guard_dropped(p)
            /\ UNCHANGED << files, made >>
    /\ UNCHANGED << users, nextId, started, calls, arg, all_paste_ids,
                    deleted, anon, passAnon, purged >>

\* delete, lines 141-144: the entry removed, the guard dropped, cleanup called
DeleteRemoveEntry(p) ==
    /\ At(p, "delete_remove_entry")
    /\ users' = [users EXCEPT ![arg[p].user].paste_ids =
                    remove_at(users[arg[p].user].paste_ids,
                              find_index(users[arg[p].user].paste_ids, arg[p].id))]
    /\ lock' = guard_dropped(p)
    /\ pc' = [pc EXCEPT ![p] = "cleanup_retain"]
    /\ UNCHANGED << files, nextId, started, calls, arg, ret, all_paste_ids, Ghosts >>

\* ------------------------------------------------- cleanup_dangling_files
\* a caller's own call of the public cleanup_dangling_files
Cleanup(p) ==
    /\ CanCall(p)
    /\ arg' = [arg EXCEPT ![p] = [NoArg EXCEPT !.op = "cleanup"]]
    /\ ret' = [ret EXCEPT ![p] = NoRet]
    /\ pc' = [pc EXCEPT ![p] = "cleanup_retain"]
    /\ calls' = calls + 1
    /\ UNCHANGED << users, files, lock, nextId, started, all_paste_ids, Ghosts >>

\* cleanup_dangling_files, lines 96-107: the lock and the users loop
CleanupRetain(p) ==
    /\ At(p, "cleanup_retain")
    /\ can_lock(lock)
    /\ lock' = p
    /\ users' = retain_users(users, files)
    /\ all_paste_ids' = [all_paste_ids EXCEPT ![p] = surviving_ids(users, files)]
    /\ passAnon' = [passAnon EXCEPT ![p] = anon]
    /\ pc' = [pc EXCEPT ![p] = "cleanup_remove"]
    /\ UNCHANGED << files, nextId, started, calls, arg, ret, made, deleted,
                    anon, purged >>

\* cleanup_dangling_files, lines 108-118: the read_dir loop and the return
\* (to Service::new, to delete, which returns Ok in turn, or to the caller)
CleanupRemove(p) ==
    /\ At(p, "cleanup_remove")
    /\ files' = remove_unreferenced(files, all_paste_ids[p])
    /\ lock' = guard_dropped(p)
    /\ all_paste_ids' = [all_paste_ids EXCEPT ![p] = {}]
    /\ pc' = [pc EXCEPT ![p] = "done"]
    /\ ret' = [ret EXCEPT ![p] = Ret("Ok")]
    /\ started' = (started \/ arg[p].op = "new")
    /\ deleted' = IF arg[p].op = "delete" THEN deleted \cup {arg[p].id} ELSE deleted
    /\ purged' = purged \cup passAnon[p]
    /\ passAnon' = [passAnon EXCEPT ![p] = {}]
    /\ UNCHANGED << users, nextId, calls, arg, made, anon >>

\* ----------------------------------------------------- register_user, list
\* register_user, lines 148-151
RegisterUser(p) ==
    /\ CanCall(p)
    /\ can_lock(lock)
    /\ lock' = guard_dropped(p)
    /\ \E u \in UserNames, pw \in Passwords, overwrite \in BOOLEAN :
        /\ arg' = [arg EXCEPT ![p] = [NoArg EXCEPT !.op = "register_user",
                                                   !.user = u, !.pw = pw]]
        /\ users' = create_user(users, u, pw, overwrite)
    /\ ret' = [ret EXCEPT ![p] = Ret("Ok")]
    /\ pc' = [pc EXCEPT ![p] = "done"]
    /\ calls' = calls + 1
    /\ UNCHANGED << files, nextId, started, all_paste_ids, Ghosts >>

\* list, lines 153-159
List(p) ==
    /\ CanCall(p)
    /\ can_lock(lock)
    /\ lock' = guard_dropped(p)
    /\ \E u \in UserNames, pw \in Passwords :
        /\ arg' = [arg EXCEPT ![p] = [NoArg EXCEPT !.op = "list",
                                                   !.user = u, !.pw = pw]]
        /\ ret' = [ret EXCEPT ![p] = list(users, u, pw)]
    /\ pc' = [pc EXCEPT ![p] = "done"]
    /\ calls' = calls + 1
    /\ UNCHANGED << users, files, nextId, started, all_paste_ids, Ghosts >>

\* dump_state, lines 161-163: the registry written out under the lock; the
\* snapshot file is outside data_dir and is not read again by the service
DumpState(p) ==
    /\ CanCall(p)
    /\ can_lock(lock)
    /\ lock' = guard_dropped(p)
    /\ arg' = [arg EXCEPT ![p] = [NoArg EXCEPT !.op = "dump_state"]]
    /\ ret' = [ret EXCEPT ![p] = Ret("Ok")]
    /\ pc' = [pc EXCEPT ![p] = "done"]
    /\ calls' = calls + 1
    /\ UNCHANGED << users, files, nextId, started, all_paste_ids, Ghosts >>

\* ------------------------------------------------------------------ return
\* the operation's Result is handed to its caller, who may call again
Return(p) ==
    /\ pc[p] = "done"
    /\ pc' = [pc EXCEPT ![p] = "idle"]
    /\ arg' = [arg EXCEPT ![p] = NoArg]
    /\ ret' = [ret EXCEPT ![p] = NoRet]
    /\ UNCHANGED << users, files, lock, nextId, started, calls, all_paste_ids, Ghosts >>

\* ------------------------------------------------------------ specification
Next ==
    \E p \in Procs :
        \/ Create(p)
        \/ CreateWrite(p)
        \/ CreatePush(p)
        \/ Read(p)
        \/ Replace(p)
        \/ ReplaceExists(p)
        \/ ReplaceWrite(p)
        \/ Delete(p)
        \/ DeleteRemoveFile(p)
        \/ DeleteRemoveEntry(p)
        \/ Cleanup(p)
        \/ CleanupRetain(p)
        \/ CleanupRemove(p)
        \/ RegisterUser(p)
        \/ List(p)
        \/ DumpState(p)
        \/ Return(p)

Spec == Init /\ [][Next]_vars

\* ================================================================== claims
\* identifiers named by some user's paste_ids
Owned(us) == UNION {Range(us[u].paste_ids) : u \in DOMAIN us}

\* number of entries of a list equal to id
Count(paste_ids, id) == Cardinality({k \in 1..Len(paste_ids) : paste_ids[k] = id})

\* p takes the first step of operation op in this step
Calls(p, op) == pc[p] = "idle" /\ pc'[p] # "idle" /\ arg'[p].op = op

\* p's operation op hands back a result of this kind in this step
Finishes(p, op, kind) ==
    /\ pc[p] # "done" /\ pc'[p] = "done"
    /\ arg'[p].op = op /\ ret'[p].kind = kind

\* C1: every create that returned identifier I for body B is followed, as long
\* as no replace(I) or delete(I) has acted, by reads of I that succeed and
\* yield B
C1_ReadAfterCreate ==
    \A m \in made : exists(files, m[1]) /\ files[m[1]] = m[2]

\* C2: when a create with credentials (u, p) returns identifier I, list(u, p)
\* called at once succeeds and I is among the identifiers it returns
C2_CreatedIdListed ==
    [][\A p \in Procs :
        (Finishes(p, "create", "Ok") /\ arg[p].authed) =>
            LET l == list(users', arg[p].user, arg[p].pw)
            IN  l.kind = "Ok" /\ ret'[p].id \in Range(l.ids)]_vars

C2_Witness ==
    \E p \in Procs :
        /\ pc[p] = "done" /\ arg[p].op = "create" /\ arg[p].authed
        /\ ret[p].kind = "Ok"
        /\ ret[p].id \in Range(list(users, arg[p].user, arg[p].pw).ids)

\* C3: once delete(I, u, p) has returned Ok, the blob of I is absent for good:
\* every later read(I) fails
C3_DeletedStaysGone ==
    \A id \in deleted : ~exists(files, id)

\* C4: when a pass of cleanup_dangling_files completes (in Service::new, in
\* delete or called directly), the identifiers in the users' paste_ids are
\* exactly the names of the files on disk
C4_ReconciledOnCompletion ==
    [][\A p \in Procs :
        (pc[p] = "cleanup_remove" /\ pc'[p] = "done") =>
            Owned(users') = DOMAIN files']_vars

C4_Witness ==
    \E p \in Procs :
        /\ pc[p] = "done" /\ arg[p].op \in {"delete", "cleanup"}
        /\ ret[p].kind = "Ok"
        /\ purged # {}
        /\ DOMAIN files # {}
        /\ Owned(users) = DOMAIN files

\* C5: replace with valid credentials of a user who does not own I fails with
\* "Paste not found" and writes no file, whoever owns the blob of I
C5_ReplaceNotOwned ==
    [][\A p \in Procs :
        ( /\ Calls(p, "replace")
          /\ arg'[p].authed
          /\ auth(users, arg'[p].user, arg'[p].pw)
          /\ arg'[p].id \notin Range(users[arg'[p].user].paste_ids) ) =>
            /\ pc'[p] = "done"
            /\ ret'[p].kind = "NotFound"
            /\ files' = files
            /\ users' = users]_vars

C5_Witness ==
    \E p \in Procs :
        /\ pc[p] = "done" /\ arg[p].op = "replace" /\ arg[p].authed
        /\ ret[p].kind = "NotFound"
        /\ auth(users, arg[p].user, arg[p].pw)
        /\ exists(files, arg[p].id)
        /\ \E v \in DOMAIN users \ {arg[p].user} :
              arg[p].id \in Range(users[v].paste_ids)

\* C6: a second pass of cleanup_dangling_files run right after a completed
\* pass changes neither any user's paste_ids nor the set of files
C6_ReconcileIdempotent ==
    [][\A p \in Procs :
        (pc[p] = "cleanup_remove" /\ pc'[p] = "done") =>
            Reconcile(users', files') = [users |-> users', files |-> files']]_vars

C6_Witness ==
    \E p \in Procs :
        /\ pc[p] = "done" /\ arg[p].op = "cleanup"
        /\ deleted # {}
        /\ \E u \in DOMAIN users : users[u].paste_ids # << >>
        /\ Reconcile(users, files) = [users |-> users, files |-> files]

\* C7: a create that fails with "Not authorized" changes no paste_ids and
\* leaves no file of its own on disk
C7_FailedCreateLeavesNothing ==
    [][\A p \in Procs :
        Finishes(p, "create", "Unauthorized") =>
            /\ users' = users
            /\ arg'[p].id = NoId \/ ~exists(files', arg'[p].id)]_vars

\* C8: once a whole pass of cleanup_dangling_files has run after an anonymous
\* create returned I, the blob of I is absent: read(I) fails
C8_AnonymousPurged ==
    \A id \in purged : ~exists(files, id)

\* C9: delete fails with "Not authorized" on credentials that do not match and
\* with "Paste not found" on an identifier the user does not own; either way
\* no paste_ids and no file changes, the lock is released and no cleanup runs
C9_DeleteFailures ==
    [][\A p \in Procs :
        Calls(p, "delete") =>
            LET a == arg'[p]
                unchanged == /\ pc'[p] = "done"
                             /\ users' = users
                             /\ files' = files
                             /\ lock' = NoProc
            IN  /\ ~auth(users, a.user, a.pw) =>
                      ret'[p].kind = "Unauthorized" /\ unchanged
                /\ (auth(users, a.user, a.pw)
                      /\ a.id \notin Range(users[a.user].paste_ids)) =>
                      ret'[p].kind = "NotFound" /\ unchanged]_vars

C9_Witness ==
    \E p \in Procs :
        /\ pc[p] = "done" /\ arg[p].op = "delete"
        /\ ret[p].kind = "NotFound"
        /\ auth(users, arg[p].user, arg[p].pw)
        /\ exists(files, arg[p].id)
        /\ arg[p].id \in Owned(users)

\* C10: a successful delete removes the file of I and then one entry I of the
\* user's paste_ids, both while holding the lock it took, releases the lock
\* and only then runs cleanup; no step of it removes an entry of another
\* identifier whose file is on disk
C10_DeleteEffect ==
    [][\A p \in Procs :
        LET a == arg[p]
            old == users[a.user].paste_ids
            new == users'[a.user].paste_ids
        IN  /\ (pc[p] = "delete_remove_file" /\ pc'[p] = "delete_remove_entry") =>
                  /\ lock = p /\ lock' = p
                  /\ users' = users
                  /\ DOMAIN files' = DOMAIN files \ {a.id}
                  /\ \A i \in DOMAIN files' : files'[i] = files[i]
            /\ (pc[p] = "delete_remove_entry" /\ pc'[p] # "delete_remove_entry") =>
                  /\ lock = p /\ lock' = NoProc
                  /\ pc'[p] = "cleanup_retain"
                  /\ files' = files
                  /\ DOMAIN users' = DOMAIN users
                  /\ \A u \in DOMAIN users \ {a.user} : users'[u] = users[u]
                  /\ users'[a.user].password = users[a.user].password
                  /\ \E k \in 1..Len(old) :
                        /\ old[k] = a.id
                        /\ Len(new) = Len(old) - 1
                        /\ \A j \in 1..Len(new) :
                              new[j] = IF j < k THEN old[j] ELSE old[j + 1]
            /\ (a.op = "delete" /\ pc[p] # pc'[p]) =>
                  \A u \in DOMAIN users, i \in DOMAIN files \ {a.id} :
                      Count(users'[u].paste_ids, i) = Count(users[u].paste_ids, i)]_vars

C10_Witness ==
    \E p \in Procs :
        /\ pc[p] = "done" /\ arg[p].op = "delete" /\ ret[p].kind = "Ok"
        /\ ~exists(files, arg[p].id)
        /\ arg[p].id \notin Owned(users)
        /\ \E i \in Owned(users) : exists(files, i)

\* a is b with some entries left out, the others in their order
RECURSIVE IsSubseq(_, _)
IsSubseq(a, b) ==
    IF a = << >> THEN TRUE
    ELSE IF b = << >> THEN FALSE
    ELSE IF Head(a) = Head(b) THEN IsSubseq(Tail(a), Tail(b))
    ELSE IsSubseq(a, Tail(b))

\* C11: list with valid credentials returns the user's paste_ids as they are,
\* and "Not authorized" otherwise; a user's paste_ids change only by a create
\* of that user appending its identifier at the end, or by a delete or a
\* cleanup pass leaving entries out without reordering the rest
C11_ListInsertionOrder ==
    [][/\ \A p \in Procs :
            Calls(p, "list") =>
                IF auth(users, arg'[p].user, arg'[p].pw)
                THEN /\ ret'[p].kind = "Ok"
                     /\ ret'[p].ids = users[arg'[p].user].paste_ids
                ELSE ret'[p].kind = "Unauthorized"
       /\ \A u \in DOMAIN users :
            /\ u \in DOMAIN users'
            /\ LET old == users[u].paste_ids
                   new == users'[u].paste_ids
               IN  \/ new = old
                   \/ \E p \in Procs :
                        /\ Finishes(p, "create", "Ok")
                        /\ arg[p].authed /\ arg[p].user = u
                        /\ new = Append(old, arg[p].id)
                   \/ \E p \in Procs :
                        /\ pc[p] \in {"delete_remove_entry", "cleanup_retain"}
                        /\ pc'[p] # pc[p]
                        /\ IsSubseq(new, old)]_vars

\* C12: replace never creates a blob: when no blob of I exists at the moment
\* replace opens the file for writing, replace fails with "Paste not found"
\* and no blob of I exists afterwards
C12_ReplaceNotUpsert ==
    [][\A p \in Procs :
        ( /\ pc[p] = "replace_write" /\ pc'[p] # "replace_write"
          /\ ~exists(files, arg[p].id) ) =>
            /\ ret'[p].kind = "NotFound"
            /\ ~exists(files', arg[p].id)]_vars

\* every identifier in some user's paste_ids has its blob on disk
OwnedHaveBlobs(us, fs) == Owned(us) \subseteq DOMAIN fs

\* C13: once Service::new has returned, every state in which nobody holds the
\* lock has the blob of every identifier in some user's paste_ids on disk: no
\* step leads from a state where that is so to a state with the lock free
\* where it is not
C13_OwnedHaveBlobs ==
    [][(started' /\ lock' = NoProc /\ OwnedHaveBlobs(users, files)) =>
            OwnedHaveBlobs(users', files')]_vars

\* p is between taking the lock and dropping its guard
InCriticalSection(p) ==
    pc[p] \in {"delete_remove_file", "delete_remove_entry", "cleanup_remove"}

\* p takes a step that reads or writes the registry in this step
RegistryStep(p) ==
    /\ pc'[p] # pc[p]
    /\ \/ pc[p] = "idle"
             /\ arg'[p].op \in {"delete", "register_user", "list", "dump_state"}
       \/ pc[p] = "idle" /\ arg'[p].op \in {"create", "replace"} /\ arg'[p].authed
       \/ pc[p] = "create_push" /\ arg[p].authed
       \/ pc[p] = "cleanup_retain"
       \/ InCriticalSection(p)

\* C14: every step that reads or writes the registry is taken either by the
\* holder of the mutex or with the mutex free (taking it in that step); the
\* registry changes in no other step, and a caller inside a critical section
\* is the holder, so at most one caller is inside one
C14_RegistryUnderLock ==
    [][/\ \A p \in Procs :
            /\ RegistryStep(p) =>
                  lock = (IF InCriticalSection(p) THEN p ELSE NoProc)
            /\ InCriticalSection(p) => lock = p
       /\ users' # users => \E p \in Procs : RegistryStep(p)]_vars

C14_Witness ==
    \E p, q \in Procs :
        /\ p # q
        /\ InCriticalSection(p) /\ lock = p
        /\ pc[q] = "cleanup_retain" \/ (pc[q] = "create_push" /\ arg[q].authed)

\* C15: while create or replace is at its file system steps (the body being
\* streamed to disk) it does not hold the registry lock
C15_NoLockWhileStreaming ==
    \A p \in Procs :
        pc[p] \in {"create_write", "create_push", "replace_exists", "replace_write"}
            => lock # p

C15_Witness ==
    \E p, q \in Procs :
        /\ p # q
        /\ pc[p] \in {"create_write", "replace_write"} /\ arg[p].authed
        /\ lock = q

\* C16: replace without credentials never fails on authentication or
\* ownership: it goes on to the existence check whoever owns I, a blob found
\* there takes it to the write, and the write returns Ok with the blob of I
\* holding the new body; no step of it changes any paste_ids
C16_AnonymousReplace ==
    [][\A p \in Procs :
        /\ (Calls(p, "replace") /\ ~arg'[p].authed) =>
              pc'[p] = "replace_exists" /\ users' = users /\ files' = files
        /\ (arg[p].op = "replace" /\ ~arg[p].authed /\ pc'[p] # pc[p]) =>
              /\ users' = users
              /\ (pc[p] = "replace_exists" /\ exists(files, arg[p].id)) =>
                    pc'[p] = "replace_write"
              /\ pc[p] = "replace_write" =>
                    /\ ret'[p].kind = "Ok"
                    /\ exists(files', arg[p].id)
                    /\ files'[arg[p].id] = arg[p].body
                    /\ \A i \in DOMAIN files \ {arg[p].id} :
                          exists(files', i) /\ files'[i] = files[i]]_vars

C16_Witness ==
    \E p \in Procs :
        /\ pc[p] = "done" /\ arg[p].op = "replace" /\ ~arg[p].authed
        /\ ret[p].kind = "Ok"
        /\ arg[p].id \in Owned(users)
        /\ files[arg[p].id] = arg[p].body
        /\ arg[p].body # "hello"

\* no identifier occurs twice in the users' paste_ids
Unique(us) ==
    /\ \A u \in DOMAIN us : \A i \in Range(us[u].paste_ids) :
          Count(us[u].paste_ids, i) = 1
    /\ \A u, v \in DOMAIN us :
          u # v => Range(us[u].paste_ids) \cap Range(us[v].paste_ids) = {}

\* C17: no step leads from a registry in which no identifier occurs twice to
\* one in which an identifier occurs twice
C17_UniqueOwner ==
    [][Unique(users) => Unique(users')]_vars

C17_Witness ==
    \E p \in Procs :
        /\ pc[p] = "done" /\ arg[p].op = "create" /\ arg[p].authed
        /\ ret[p].kind = "Ok"
        /\ Unique(users)
        /\ Cardinality(Owned(users)) >= 2

\* C18: the users loop of a cleanup pass removes no entry whose blob is on
\* disk, and its read_dir loop deletes no blob whose identifier is in some
\* user's paste_ids
C18_CleanupSparesConsistent ==
    [][\A p \in Procs :
        /\ (pc[p] = "cleanup_retain" /\ pc'[p] = "cleanup_remove") =>
              /\ DOMAIN users' = DOMAIN users
              /\ \A u \in DOMAIN users, i \in DOMAIN files :
                    Count(users'[u].paste_ids, i) = Count(users[u].paste_ids, i)
        /\ (pc[p] = "cleanup_remove" /\ pc'[p] # "cleanup_remove") =>
              (DOMAIN files \ DOMAIN files') \cap Owned(users) = {}]_vars

C18_Witness ==
    \E p \in Procs :
        /\ pc[p] = "cleanup_remove" /\ lock = p
        /\ all_paste_ids[p] # {}
        /\ DOMAIN files \ all_paste_ids[p] # {}

\* ------------------------------------------------------- fair scheduling
\* the steps an operation of p takes once it has been called
Proceed(p) ==
    \/ CreateWrite(p) \/ CreatePush(p)
    \/ ReplaceExists(p) \/ ReplaceWrite(p)
    \/ DeleteRemoveFile(p) \/ DeleteRemoveEntry(p)
    \/ CleanupRetain(p) \/ CleanupRemove(p)
    \/ Return(p)

\* the threads keep being scheduled and a lock() that stays possible is
\* granted: while some started operation can take its next step, one does
FairSpec == Spec /\ WF_vars(\E p \in Procs : Proceed(p))

\* C19: a caller that is not inside an operation holds no lock, and every
\* operation that has started comes to its return (a caller is again and
\* again outside every operation, which it leaves only by returning)
C19_NoDeadlock ==
    /\ [](\A p \in Procs : pc[p] \in {"idle", "done"} => lock # p)
    /\ \A p \in Procs : []<>(pc[p] \in {"idle", "done"})

C19_Witness ==
    \E p, q \in Procs :
        /\ p # q
        /\ pc[p] = "done" /\ arg[p].op = "delete" /\ ret[p].kind = "Ok"
        /\ pc[q] = "cleanup_retain"
        /\ lock = NoProc

====
